---- MODULE Spec2Model ----
(***************************************************************************)
(* Model of the per-turn conversation pipeline of the iMessage support     *)
(* agent: SupportAgent.process_message drives an AgentState through the    *)
(* LangGraph nodes analyze_message, generate_response,                     *)
(* analyze_conversation, handle_escalation and finalize_response.          *)
(*                                                                         *)
(* Strings are sequences of non-empty text chunks, so that concatenation   *)
(* (f-strings, +=) is sequence concatenation and "non-empty" is Len > 0.   *)
(* Floats are integers in hundredths.                                      *)
(***************************************************************************)
EXTENDS FiniteSets, Integers, Sequences, TLC

\* ------------------------------------------------------------------ bounds
\* Longest tag list the Conversation Analyzer's model output carries.
MaxTags == 2

\* ------------------------------------------------------- fixed strings
\* support_chain.py:137 and support_agent.py:280 (the same text).
APOLOGY == <<"I apologize, but I'm experiencing technical difficulties. Please try again or contact human support.">>
\* support_agent.py:262
NO_RESPONSE_TEXT == <<"I apologize, but I couldn't generate a response.">>
\* support_agent.py:185
NOTE_PREFIX == "\n\n[Note: This case has been escalated to human support. Reason: "
NOTE_SUFFIX == "]"
EMPTY == <<>>

\* str(e) of whatever exception was raised
ErrDetail == "boom"

\* ---------------------------------------------------- collaborator outputs
\* Values the language model behind the Response Generator may produce
\* (SupportResponse: escalation_reason defaults to "", should_escalate to
\* False, confidence is an unconstrained float).
GenContents == {<<"Happy to help with that.">>, EMPTY}
GenConfidences == {85, 150, -20}
GenReasons == {EMPTY, <<"billing dispute">>}
\* time.time() - start_time: the wall clock may be set back during the call
ResponseTimes == {120, -5}

Urgencies == {"high", "critical"}
Satisfactions == {"dissatisfied", "very_dissatisfied"}
Sentiments == {"neutral", "very_negative"}
NextActions == {"transfer to billing"}
TagAlphabet == {"escalation_medium"}

EscLevels == {"medium", "urgent"}
EscReasons == {EMPTY, <<"customer disputes a double charge">>}
EscScores == {9}

RECURSIVE SeqsUpTo(_, _)
SeqsUpTo(S, n) ==
    IF n = 0 THEN {<<>>}
    ELSE LET shorter == SeqsUpTo(S, n - 1)
         IN  shorter \cup {Append(s, x) : s \in {t \in shorter : Len(t) = n - 1}, x \in S}

TagLists == SeqsUpTo(TagAlphabet, MaxTags)

Range(s) == {s[i] : i \in 1..Len(s)}

\* ------------------------------------------------------------- data model
NoMessage == [present |-> FALSE, content |-> EMPTY]

\* AgentState as process_message constructs it: only conversation_id and
\* current_message are given, every other field takes its default.
AgentState(conversation_id, current_message) ==
    [conversation_id      |-> conversation_id,
     current_message      |-> current_message,
     messages             |-> <<>>,
     conversation_history |-> <<>>,
     generated_response   |-> EMPTY,
     response_metadata    |-> "none",
     confidence_score     |-> 0,
     response_time        |-> 0,
     should_escalate      |-> FALSE,
     escalation_reason    |-> EMPTY,
     conversation_tags    |-> <<>>,
     error_message        |-> EMPTY,
     is_processing        |-> FALSE,
     processing_start_time |-> 0]

AgentResponse(content, conversation_id, confidence_score, response_time, should_escalate, escalation_reason, metadata) ==
    [content           |-> content,
     conversation_id   |-> conversation_id,
     confidence_score  |-> confidence_score,
     response_time     |-> response_time,
     should_escalate   |-> should_escalate,
     escalation_reason |-> escalation_reason,
     metadata          |-> metadata]

\* The ranges of the AgentResponse contract: confidence_score in [0,1] and
\* response_time >= 0; constructing an AgentResponse outside them raises.
ValidAgentResponse(confidence_score, response_time) ==
    /\ confidence_score >= 0 /\ confidence_score <= 100
    /\ response_time >= 0

NoMetadata == [conversation_tags |-> <<>>, response_metadata |-> "none",
               error_message |-> EMPTY]

NoResponse == [returned |-> FALSE]

VARIABLES
    pc,          \* position of process_message: "idle", "graph", "done", "raised"
    state,       \* the AgentState of the turn
    pending,     \* nodes of the current superstep that have not run yet
    nextNodes,   \* nodes triggered for the next superstep
    stepSize,    \* number of nodes the current superstep was scheduled with
    ran,         \* nodes executed so far, in order
    response,    \* what process_message returned (NoResponse before)
    genResult,   \* what the Response Generator did this turn
    analysis,    \* what the Conversation Analyzer returned this turn
    escResult,   \* what the Escalation Analyzer did this turn
    route,       \* verdict of _should_escalate at the branch
    graphRaised, \* TRUE once graph.ainvoke raised
    turn,        \* which process_message invocation is running (1 or 2)
    parked,      \* the other invocation, suspended at an await
    phone,       \* the string handed to validate_phone_number
    validation,  \* what validate_phone_number returned (NoValidation before)
    priority,    \* arguments and result of calculate_response_priority
    support_agent, \* the module global of main.py: "None" or "agent"
    startup,     \* how far the application's lifespan startup got
    hook         \* what imessage_webhook answered (NoHook before)

vars == <<pc, state, pending, nextNodes, stepSize, ran, response,
          genResult, analysis, escResult, route, graphRaised, turn, parked,
          phone, validation, priority, support_agent, startup, hook>>

\* the validator's input and result
validator == <<phone, validation>>

\* the application around the agent: the global, the startup, the webhook
service == <<support_agent, startup, hook>>

\* the other invocation's frame, the helpers and the application
others == <<turn, parked, validator, priority, service>>

history == <<genResult, analysis, escResult, route>>

ConversationIds == {"conv-1", "conv-2"}
MessageContents == {<<"I'm being charged twice this month">>, <<"Thank you for escalating this">>}

\* what the caller passes to each invocation: the second one is for the same
\* conversation or for another one, and carries another message
IdsOf(t) == IF t = 1 THEN {"conv-1"} ELSE {"conv-1", "conv-2"}
MessagesOf(t) ==
    IF t = 1 THEN {<<"I'm being charged twice this month">>}
    ELSE {<<"Thank you for escalating this">>}

NoGen == [kind |-> "none"]
NoAnalysis == [kind |-> "none"]
NoEsc == [kind |-> "none"]
NoValidation == [kind |-> "none"]
NoPriority == [kind |-> "none"]
NotStarted == [kind |-> "pending"]
NoHook == [kind |-> "idle"]

\* process_message is served by an agent that exists; nothing else of the
\* application has acted
AgentInstalled ==
    /\ support_agent = "agent"
    /\ startup = NotStarted
    /\ hook = NoHook

\* an invocation that has not started yet
IdleContext ==
    [pc |-> "idle", state |-> AgentState("", NoMessage), pending |-> {},
     nextNodes |-> {}, stepSize |-> 0, ran |-> <<>>, response |-> NoResponse,
     genResult |-> NoGen, analysis |-> NoAnalysis, escResult |-> NoEsc,
     route |-> "none", graphRaised |-> FALSE]

\* the running invocation's frame
CurrentContext ==
    [pc |-> pc, state |-> state, pending |-> pending, nextNodes |-> nextNodes,
     stepSize |-> stepSize, ran |-> ran, response |-> response,
     genResult |-> genResult, analysis |-> analysis, escResult |-> escResult,
     route |-> route, graphRaised |-> graphRaised]

Init ==
    /\ turn = 1
    /\ parked = IdleContext
    /\ phone = <<>>
    /\ validation = NoValidation
    /\ priority = NoPriority
    /\ AgentInstalled
    /\ pc = "idle"
    /\ state = AgentState("", NoMessage)
    /\ pending = {}
    /\ nextNodes = {}
    /\ stepSize = 0
    /\ ran = <<>>
    /\ response = NoResponse
    /\ genResult = NoGen
    /\ analysis = NoAnalysis
    /\ escResult = NoEsc
    /\ route = "none"
    /\ graphRaised = FALSE

\* ------------------------------------------------------------ collaborators
\* Outputs the language model behind each chain may give: a parsed result,
\* or a failure (the call or the output parser raises).
LlmFailed == [ok |-> FALSE]

SupportLlmResults ==
    {[ok |-> TRUE, response |-> c, confidence |-> k, should_escalate |-> b,
      escalation_reason |-> r] :
        c \in GenContents, k \in GenConfidences, b \in BOOLEAN, r \in GenReasons}
    \cup {LlmFailed}

ConversationLlmResults ==
    {[ok |-> TRUE, sentiment |-> s, urgency |-> u, customer_satisfaction |-> cs,
      next_best_action |-> a, should_continue |-> sc, tags |-> t] :
        s \in Sentiments, u \in Urgencies, cs \in Satisfactions,
        a \in NextActions, sc \in BOOLEAN, t \in TagLists}
    \cup {LlmFailed}

EscalationLlmResults ==
    {[ok |-> TRUE, escalation_level |-> l, escalation_reason |-> r,
      priority_score |-> p] : l \in EscLevels, r \in EscReasons, p \in EscScores}
    \cup {LlmFailed}
\* Variant whose failure fallback does not ask for escalation.
SupportChain_generate_response_no_escalation(llm, elapsed) ==
    IF llm.ok /\ ValidAgentResponse(llm.confidence, elapsed)
    THEN AgentResponse(llm.response, "", llm.confidence, elapsed,
                       llm.should_escalate, llm.escalation_reason, "llm")
    ELSE AgentResponse(APOLOGY, "", 0, elapsed, FALSE, EMPTY, "none")

\* SupportChain.generate_response: a failure of the model call, of the
\* parser or of building the AgentResponse becomes the apology response.
\* (With a negative elapsed time the apology response cannot be built
\* either and the call raises: see GenerateResponse.)
SupportChain_generate_response(llm, elapsed) ==
    IF llm.ok /\ ValidAgentResponse(llm.confidence, elapsed)
    THEN AgentResponse(llm.response, "", llm.confidence, elapsed,
                       llm.should_escalate, llm.escalation_reason, "llm")
    ELSE AgentResponse(APOLOGY, "", 0, elapsed, TRUE,
                       <<"Error in AI response generation: ", ErrDetail>>, "none")

\* Variant whose default analysis reports critical urgency.
ConversationChain_analyze_conversation_critical_default(llm) ==
    IF llm.ok
    THEN [kind |-> "analysis", failed |-> FALSE, sentiment |-> llm.sentiment,
          urgency |-> llm.urgency,
          customer_satisfaction |-> llm.customer_satisfaction,
          next_best_action |-> llm.next_best_action,
          should_continue |-> llm.should_continue, tags |-> llm.tags]
    ELSE [kind |-> "analysis", failed |-> TRUE, sentiment |-> "neutral",
          urgency |-> "critical", customer_satisfaction |-> "unknown",
          next_best_action |-> "continue conversation",
          should_continue |-> TRUE, tags |-> <<"error", "fallback">>]

\* ConversationChain.analyze_conversation: a failure becomes the default
\* analysis.
ConversationChain_analyze_conversation(llm) ==
    IF llm.ok
    THEN [kind |-> "analysis", failed |-> FALSE, sentiment |-> llm.sentiment,
          urgency |-> llm.urgency,
          customer_satisfaction |-> llm.customer_satisfaction,
          next_best_action |-> llm.next_best_action,
          should_continue |-> llm.should_continue, tags |-> llm.tags]
    ELSE [kind |-> "analysis", failed |-> TRUE, sentiment |-> "neutral",
          urgency |-> "medium", customer_satisfaction |-> "unknown",
          next_best_action |-> "continue conversation",
          should_continue |-> TRUE, tags |-> <<"error", "fallback">>]
\* Variant that forgets the urgency trigger.
should_escalate_conversation_no_urgency(a) ==
    \/ a.customer_satisfaction = "very_dissatisfied"
    \/ a.sentiment = "very_negative"
    \/ ~a.should_continue

\* Variant that also escalates on high urgency.
should_escalate_conversation_high(a) ==
    \/ a.urgency \in {"high", "critical"}
    \/ a.customer_satisfaction = "very_dissatisfied"
    \/ a.sentiment = "very_negative"
    \/ ~a.should_continue

\* ConversationChain.should_escalate_conversation
should_escalate_conversation(a) ==
    \/ a.urgency = "critical"
    \/ a.customer_satisfaction = "very_dissatisfied"
    \/ a.sentiment = "very_negative"
    \/ ~a.should_continue

\* EscalationChain.analyze_escalation: a failure becomes the default
\* medium-priority analysis.
EscalationChain_analyze_escalation(llm, trigger) ==
    IF llm.ok
    THEN [kind |-> "analysis", failed |-> FALSE, trigger |-> trigger,
          escalation_level |-> llm.escalation_level,
          escalation_reason |-> llm.escalation_reason,
          priority_score |-> llm.priority_score]
    ELSE [kind |-> "analysis", failed |-> TRUE, trigger |-> trigger,
          escalation_level |-> "medium",
          escalation_reason |-> <<"Error in escalation analysis: ", ErrDetail>>,
          priority_score |-> 5]

\* f"escalation_{level}" and f"priority_{score}"
EscalationTag(level) == IF level = "medium" THEN "escalation_medium" ELSE "escalation_urgent"
PriorityTag(score) == IF score = 5 THEN "priority_5" ELSE "priority_9"

\* ------------------------------------------------------------------ graph
Nodes == {"analyze_message", "generate_response", "analyze_conversation",
          "handle_escalation", "finalize_response"}

\* SupportAgent._should_escalate
RouteOf(st) == IF st.should_escalate THEN "escalate" ELSE "continue"

\* Variant of the mapping that sends both routes to finalize_response.
RouteTarget_always_finalize(r) == "finalize_response"

\* the mapping handed to add_conditional_edges
RouteTarget(r) == IF r = "escalate" THEN "handle_escalation" ELSE "finalize_response"
\* Variant of the graph without the edge handle_escalation -> finalize_response.
Successors_no_finalize_edge(node, st) ==
    CASE node = "analyze_message"      -> {"generate_response"}
      [] node = "generate_response"    -> {"analyze_conversation"}
      [] node = "analyze_conversation" -> {"handle_escalation"} \cup {RouteTarget(RouteOf(st))}
      [] node = "handle_escalation"    -> {}
      [] node = "finalize_response"    -> {}

\* Edges of SupportAgent._create_graph: the add_edge calls plus the
\* conditional edges out of analyze_conversation.  finalize_response leads
\* to END.
Successors(node, st) ==
    CASE node = "analyze_message"      -> {"generate_response"}
      [] node = "generate_response"    -> {"analyze_conversation"}
      [] node = "analyze_conversation" -> {"handle_escalation"} \cup {RouteTarget(RouteOf(st))}
      [] node = "handle_escalation"    -> {"finalize_response"}
      [] node = "finalize_response"    -> {}

\* The runner: a node that has run leaves the current superstep and triggers
\* its successors for the next one; when the superstep is empty the next one
\* starts.
Advance(node, st) ==
    LET rest == pending \ {node}
        triggered == nextNodes \cup Successors(node, st)
    IN  /\ ran' = Append(ran, node)
        /\ IF rest = {}
           THEN /\ pending' = triggered
                /\ nextNodes' = {}
                /\ stepSize' = Cardinality(triggered)
           ELSE /\ pending' = rest
                /\ nextNodes' = triggered
                /\ stepSize' = stepSize

Runnable(node) == pc = "graph" /\ node \in pending

\* Variant that keeps the message lists on the shared agent instead of in a
\* fresh AgentState.
ProcessMessageStart_shared_lists ==
    /\ pc = "idle"
    /\ \E cid \in IdsOf(turn), content \in MessagesOf(turn) :
          state' = [AgentState(cid, [present |-> TRUE, content |-> content])
                       EXCEPT !.messages = parked.state.messages,
                              !.conversation_history = parked.state.conversation_history]
    /\ pc' = "graph"
    /\ pending' = {"analyze_message"}
    /\ nextNodes' = {}
    /\ stepSize' = 1
    /\ UNCHANGED <<ran, response, history, graphRaised, others>>

\* Variant that picks up the state a cancelled turn of the same conversation
\* left behind.
ProcessMessageStart_resumes_cancelled ==
    /\ pc = "idle"
    /\ \E cid \in IdsOf(turn), content \in MessagesOf(turn) :
          state' = IF parked.pc = "cancelled" /\ parked.state.conversation_id = cid
                   THEN [parked.state EXCEPT !.current_message = [present |-> TRUE, content |-> content]]
                   ELSE AgentState(cid, [present |-> TRUE, content |-> content])
    /\ pc' = "graph"
    /\ pending' = {"analyze_message"}
    /\ nextNodes' = {}
    /\ stepSize' = 1
    /\ UNCHANGED <<ran, response, history, graphRaised, others>>

\* Variant that holds a lock per conversation id while a turn is running.
ProcessMessageStart_conversation_lock ==
    /\ pc = "idle"
    /\ \E cid \in IdsOf(turn), content \in MessagesOf(turn) :
          /\ ~(parked.pc = "graph" /\ parked.state.conversation_id = cid)
          /\ state' = AgentState(cid, [present |-> TRUE, content |-> content])
    /\ pc' = "graph"
    /\ pending' = {"analyze_message"}
    /\ nextNodes' = {}
    /\ stepSize' = 1
    /\ UNCHANGED <<ran, response, history, graphRaised, others>>

\* ----------------------------------------------------------------- stages
\* process_message up to graph.ainvoke: a fresh AgentState around the
\* incoming message.
ProcessMessageStart ==
    /\ pc = "idle"
    /\ \E cid \in IdsOf(turn), content \in MessagesOf(turn) :
          state' = AgentState(cid, [present |-> TRUE, content |-> content])
    /\ pc' = "graph"
    /\ pending' = {"analyze_message"}
    /\ nextNodes' = {}
    /\ stepSize' = 1
    /\ UNCHANGED <<ran, response, history, graphRaised, others>>

\* SupportAgent._analyze_message.  fault: where an exception is raised
\* inside the try block, if any.
AnalyzeMessageFaults == {"none", "before_append", "after_append"}

analyze_message_body(st, fault) ==
    LET s1 == [st EXCEPT !.is_processing = TRUE, !.processing_start_time = 1]
        s2 == IF s1.current_message.present /\ fault # "before_append"
              THEN [s1 EXCEPT !.messages = Append(@, s1.current_message.content)]
              ELSE s1
        s3 == IF s1.current_message.present /\ fault = "none"
              THEN [s2 EXCEPT !.conversation_history =
                                  Append(@, [role |-> "user", content |-> s1.current_message.content])]
              ELSE s2
    IN  IF fault = "none" \/ ~s1.current_message.present
        THEN s3
        ELSE [s3 EXCEPT !.error_message = <<"Error analyzing message: ", ErrDetail>>,
                        !.is_processing = FALSE]

AnalyzeMessage ==
    /\ Runnable("analyze_message")
    /\ \E fault \in AnalyzeMessageFaults :
          /\ state' = analyze_message_body(state, fault)
          /\ Advance("analyze_message", state')
    /\ UNCHANGED <<pc, response, history, graphRaised, others>>

\* Variant that takes the confidence from the model output itself.
generate_response_body_raw_confidence(st, raised, llm, elapsed) ==
    IF ~st.current_message.present
    THEN [st EXCEPT !.error_message = <<"No current message to process">>]
    ELSE IF raised
    THEN [st EXCEPT !.error_message = <<"Error generating response: ", ErrDetail>>,
                    !.should_escalate = TRUE,
                    !.escalation_reason = <<"Error in response generation: ", ErrDetail>>]
    ELSE LET r == SupportChain_generate_response(llm, elapsed)
         IN  [st EXCEPT !.generated_response = r.content,
                        !.response_metadata = r.metadata,
                        !.confidence_score = IF llm.ok THEN llm.confidence ELSE r.confidence_score,
                        !.response_time = r.response_time,
                        !.should_escalate = r.should_escalate,
                        !.escalation_reason = r.escalation_reason]

\* Variant that also records the draft in the history.
generate_response_body_records_reply(st, raised, llm, elapsed) ==
    IF ~st.current_message.present
    THEN [st EXCEPT !.error_message = <<"No current message to process">>]
    ELSE IF raised
    THEN [st EXCEPT !.error_message = <<"Error generating response: ", ErrDetail>>,
                    !.should_escalate = TRUE,
                    !.escalation_reason = <<"Error in response generation: ", ErrDetail>>]
    ELSE LET r == SupportChain_generate_response(llm, elapsed)
         IN  [st EXCEPT !.generated_response = r.content,
                        !.response_metadata = r.metadata,
                        !.confidence_score = r.confidence_score,
                        !.response_time = r.response_time,
                        !.should_escalate = r.should_escalate,
                        !.escalation_reason = r.escalation_reason,
                        !.conversation_history =
                            Append(@, [role |-> "assistant", content |-> r.content])]

\* SupportAgent._generate_response.  raised: the call to the support chain
\* raises into the stage's except block; otherwise the chain returns
\* SupportChain_generate_response(llm, elapsed).
generate_response_body(st, raised, llm, elapsed) ==
    IF ~st.current_message.present
    THEN [st EXCEPT !.error_message = <<"No current message to process">>]
    ELSE IF raised
    THEN [st EXCEPT !.error_message = <<"Error generating response: ", ErrDetail>>,
                    !.should_escalate = TRUE,
                    !.escalation_reason = <<"Error in response generation: ", ErrDetail>>]
    ELSE LET r == SupportChain_generate_response(llm, elapsed)
         IN  [st EXCEPT !.generated_response = r.content,
                        !.response_metadata = r.metadata,
                        !.confidence_score = r.confidence_score,
                        !.response_time = r.response_time,
                        !.should_escalate = r.should_escalate,
                        !.escalation_reason = r.escalation_reason]

GenOutcome(st, raised, llm, elapsed) ==
    IF ~st.current_message.present THEN [kind |-> "skipped"]
    ELSE IF raised THEN [kind |-> "raised", elapsed |-> elapsed]
    ELSE [kind |-> "returned", failed |-> ~(llm.ok /\ ValidAgentResponse(llm.confidence, elapsed)),
          malformed |-> llm.ok /\ ~ValidAgentResponse(llm.confidence, elapsed),
          response |-> SupportChain_generate_response(llm, elapsed)]

GenerateResponse ==
    /\ Runnable("generate_response")
    /\ \E raised \in BOOLEAN, llm \in SupportLlmResults, elapsed \in ResponseTimes :
          /\ raised => (llm = LlmFailed \/ elapsed < 0)
          /\ elapsed < 0 => raised
          /\ state' = generate_response_body(state, raised, llm, elapsed)
          /\ genResult' = GenOutcome(state, raised, llm, elapsed)
          /\ Advance("generate_response", state')
    /\ UNCHANGED <<pc, response, analysis, escResult, route, graphRaised, others>>
\* Variant that assigns the policy's verdict instead of only raising the flag.
analyze_conversation_body_assign(st, raised, llm) ==
    IF raised
    THEN [st EXCEPT !.error_message = <<"Error analyzing conversation: ", ErrDetail>>]
    ELSE LET a == ConversationChain_analyze_conversation(llm)
             s1 == [st EXCEPT !.conversation_tags = a.tags]
         IN  [s1 EXCEPT !.should_escalate = should_escalate_conversation(a),
                        !.escalation_reason =
                            IF should_escalate_conversation(a)
                            THEN <<"Conversation analysis indicates escalation needed: ",
                                   a.next_best_action>>
                            ELSE @]

\* Variant that keeps a reason the Response Generator had already given.
analyze_conversation_body_keeps_reason(st, raised, llm) ==
    IF raised
    THEN [st EXCEPT !.error_message = <<"Error analyzing conversation: ", ErrDetail>>]
    ELSE LET a == ConversationChain_analyze_conversation(llm)
             s1 == [st EXCEPT !.conversation_tags = a.tags]
         IN  IF should_escalate_conversation(a)
             THEN [s1 EXCEPT !.should_escalate = TRUE,
                             !.escalation_reason =
                                 IF @ # EMPTY THEN @
                                 ELSE <<"Conversation analysis indicates escalation needed: ",
                                        a.next_best_action>>]
             ELSE s1

\* SupportAgent._analyze_conversation.  raised: building the mock
\* conversation or the analyzer call raises into the except block.
analyze_conversation_body(st, raised, llm) ==
    IF raised
    THEN [st EXCEPT !.error_message = <<"Error analyzing conversation: ", ErrDetail>>]
    ELSE LET a == ConversationChain_analyze_conversation(llm)
             s1 == [st EXCEPT !.conversation_tags = a.tags]
         IN  IF should_escalate_conversation(a)
             THEN [s1 EXCEPT !.should_escalate = TRUE,
                             !.escalation_reason =
                                 <<"Conversation analysis indicates escalation needed: ",
                                   a.next_best_action>>]
             ELSE s1

AnalyzeConversation ==
    /\ Runnable("analyze_conversation")
    /\ \E raised \in BOOLEAN, llm \in ConversationLlmResults :
          /\ raised => llm = LlmFailed
          /\ state' = analyze_conversation_body(state, raised, llm)
          /\ analysis' = IF raised THEN [kind |-> "raised"]
                         ELSE ConversationChain_analyze_conversation(llm)
          /\ route' = RouteOf(state')
          /\ Advance("analyze_conversation", state')
    /\ UNCHANGED <<pc, response, genResult, escResult, graphRaised, others>>

\* Variant that forgets the priority tag.
handle_escalation_body_no_priority_tag(st, raised, llm) ==
    IF ~st.should_escalate
    THEN st
    ELSE IF raised
    THEN [st EXCEPT !.error_message = <<"Error handling escalation: ", ErrDetail>>]
    ELSE LET e == EscalationChain_analyze_escalation(llm, st.escalation_reason)
         IN  [st EXCEPT !.escalation_reason = e.escalation_reason,
                        !.conversation_tags = @ \o <<EscalationTag(e.escalation_level)>>]

\* SupportAgent._handle_escalation
\* Variant without the early return: a turn that does not escalate gets the
\* default escalation tags all the same.
handle_escalation_body_no_early_return(st, raised, llm) ==
    IF raised /\ st.should_escalate
    THEN [st EXCEPT !.error_message = <<"Error handling escalation: ", ErrDetail>>]
    ELSE LET e == EscalationChain_analyze_escalation(llm, st.escalation_reason)
         IN  [st EXCEPT !.escalation_reason = e.escalation_reason,
                        !.conversation_tags =
                            @ \o <<EscalationTag(e.escalation_level),
                                   PriorityTag(e.priority_score)>>]

handle_escalation_body(st, raised, llm) ==
    IF ~st.should_escalate
    THEN st
    ELSE IF raised
    THEN [st EXCEPT !.error_message = <<"Error handling escalation: ", ErrDetail>>]
    ELSE LET e == EscalationChain_analyze_escalation(llm, st.escalation_reason)
         IN  [st EXCEPT !.escalation_reason = e.escalation_reason,
                        !.conversation_tags =
                            @ \o <<EscalationTag(e.escalation_level),
                                   PriorityTag(e.priority_score)>>]

\* Variant that hands the analyzer the customer's message as the trigger.
EscOutcome_trigger_is_message(st, raised, llm) ==
    IF ~st.should_escalate THEN [kind |-> "skipped"]
    ELSE IF raised THEN [kind |-> "raised", trigger |-> st.current_message.content]
    ELSE EscalationChain_analyze_escalation(llm, st.current_message.content)

\* Variant without the early return: the analyzer is called whatever
\* should_escalate says.
EscOutcome_always_calls(st, raised, llm) ==
    IF raised THEN [kind |-> "raised", trigger |-> st.escalation_reason]
    ELSE EscalationChain_analyze_escalation(llm, st.escalation_reason)

EscOutcome(st, raised, llm) ==
    IF ~st.should_escalate THEN [kind |-> "skipped"]
    ELSE IF raised THEN [kind |-> "raised", trigger |-> st.escalation_reason]
    ELSE EscalationChain_analyze_escalation(llm, st.escalation_reason)

HandleEscalation ==
    /\ Runnable("handle_escalation")
    /\ \E raised \in BOOLEAN, llm \in EscalationLlmResults :
          /\ (raised \/ ~state.should_escalate) => llm = LlmFailed
          /\ ~state.should_escalate => ~raised
          /\ state' = handle_escalation_body(state, raised, llm)
          /\ escResult' = EscOutcome(state, raised, llm)
          /\ Advance("handle_escalation", state')
    /\ UNCHANGED <<pc, response, genResult, analysis, route, graphRaised, others>>

\* Variant that forgets the set(): the tags as they are.
Dedup_identity(tags) == {tags}

\* list(set(tags)): the distinct tags, in whatever order the set yields
Dedup(tags) ==
    LET distinct == Range(tags)
        n == Cardinality(distinct)
    IN  {s \in [1..n -> distinct] : Range(s) = distinct}

EscalationNote(reason) == <<NOTE_PREFIX>> \o reason \o <<NOTE_SUFFIX>>

\* SupportAgent._finalize_response.  fault: where an exception is raised
\* inside the try block, if any ("note": appending the escalation note,
\* "tags": deduplicating the tags).
FinalizeFaults == {"none", "note", "tags"}

FinalizeFaultPossible(st, fault) ==
    /\ fault = "note" => st.should_escalate
    /\ fault = "tags" => st.conversation_tags # <<>>

\* Variant that appends the escalation note whatever should_escalate says.
finalize_response_body_always_note(st, fault, deduped) ==
    LET s1 == [st EXCEPT !.is_processing = FALSE]
        s2 == IF fault # "note"
              THEN [s1 EXCEPT !.generated_response = @ \o EscalationNote(s1.escalation_reason)]
              ELSE s1
        s3 == IF s2.conversation_tags # <<>> /\ fault = "none"
              THEN [s2 EXCEPT !.conversation_tags = deduped]
              ELSE s2
    IN  IF fault = "none"
        THEN s3
        ELSE [s3 EXCEPT !.error_message = <<"Error finalizing response: ", ErrDetail>>,
                        !.is_processing = FALSE]

\* Variant that resets error_message when FINALIZE succeeds.
finalize_response_body_clears_error(st, fault, deduped) ==
    LET s1 == [st EXCEPT !.is_processing = FALSE]
        s2 == IF s1.should_escalate /\ fault # "note"
              THEN [s1 EXCEPT !.generated_response = @ \o EscalationNote(s1.escalation_reason)]
              ELSE s1
        s3 == IF s2.conversation_tags # <<>> /\ fault = "none"
              THEN [s2 EXCEPT !.conversation_tags = deduped]
              ELSE s2
    IN  IF fault = "none"
        THEN [s3 EXCEPT !.error_message = EMPTY]
        ELSE [s3 EXCEPT !.error_message = <<"Error finalizing response: ", ErrDetail>>,
                        !.is_processing = FALSE]


finalize_response_body(st, fault, deduped) ==
    LET s1 == [st EXCEPT !.is_processing = FALSE]
        s2 == IF s1.should_escalate /\ fault # "note"
              THEN [s1 EXCEPT !.generated_response = @ \o EscalationNote(s1.escalation_reason)]
              ELSE s1
        s3 == IF s2.conversation_tags # <<>> /\ fault = "none"
              THEN [s2 EXCEPT !.conversation_tags = deduped]
              ELSE s2
    IN  IF fault = "none"
        THEN s3
        ELSE [s3 EXCEPT !.error_message = <<"Error finalizing response: ", ErrDetail>>,
                        !.is_processing = FALSE]

FinalizeResponse ==
    /\ Runnable("finalize_response")
    /\ \E fault \in FinalizeFaults, deduped \in Dedup(state.conversation_tags) :
          /\ FinalizeFaultPossible(state, fault)
          /\ state' = finalize_response_body(state, fault, deduped)
          /\ Advance("finalize_response", state')
    /\ UNCHANGED <<pc, response, history, graphRaised, others>>

\* Variant that reports the reason only when the turn escalates.
ResponseFrom_reason_only_if_escalated(final_state, conversation_id) ==
    AgentResponse(
        IF final_state.generated_response # EMPTY
            THEN final_state.generated_response ELSE NO_RESPONSE_TEXT,
        conversation_id,
        IF final_state.confidence_score # 0 THEN final_state.confidence_score ELSE 0,
        IF final_state.response_time # 0 THEN final_state.response_time ELSE 0,
        final_state.should_escalate,
        IF final_state.should_escalate THEN final_state.escalation_reason ELSE EMPTY,
        [conversation_tags |-> final_state.conversation_tags,
         response_metadata |-> final_state.response_metadata,
         error_message |-> final_state.error_message])

\* process_message after graph.ainvoke returned: the AgentResponse built
\* from the final state.
ResponseFrom(final_state, conversation_id) ==
    AgentResponse(
        IF final_state.generated_response # EMPTY
            THEN final_state.generated_response ELSE NO_RESPONSE_TEXT,
        conversation_id,
        IF final_state.confidence_score # 0 THEN final_state.confidence_score ELSE 0,
        IF final_state.response_time # 0 THEN final_state.response_time ELSE 0,
        final_state.should_escalate,
        final_state.escalation_reason,
        [conversation_tags |-> final_state.conversation_tags,
         response_metadata |-> final_state.response_metadata,
         error_message |-> final_state.error_message])

ProcessMessageReturn ==
    /\ pc = "graph"
    /\ pending = {}
    /\ response' = [returned |-> TRUE, value |-> ResponseFrom(state, state.conversation_id)]
    /\ pc' = "done"
    /\ UNCHANGED <<state, pending, nextNodes, stepSize, ran, history, graphRaised, others>>

\* Variant whose fallback marks the missing measurement with -1.
ErrorResponse_negative_time(conversation_id) ==
    AgentResponse(APOLOGY, conversation_id, 0, -1, TRUE,
                  <<"Error in agent processing: ", ErrDetail>>, NoMetadata)

\* Variant whose fallback reports a fixed reason and drops the error text.
ErrorResponse_generic_reason(conversation_id) ==
    AgentResponse(APOLOGY, conversation_id, 0, 0, TRUE,
                  <<"Error in agent processing">>, NoMetadata)

\* process_message's except block: the response returned when anything
\* inside the try block (graph.ainvoke, building the response) raises.
ErrorResponse(conversation_id) ==
    AgentResponse(APOLOGY, conversation_id, 0, 0, TRUE,
                  <<"Error in agent processing: ", ErrDetail>>, NoMetadata)
\* Variant of the except block that re-raises instead of answering.
ProcessMessageExcept_reraise ==
    /\ pc = "graph"
    /\ graphRaised' = TRUE
    /\ pc' = "raised"
    /\ UNCHANGED <<state, pending, nextNodes, stepSize, ran, response, history, others>>


ProcessMessageExcept ==
    /\ pc = "graph"
    /\ graphRaised' = TRUE
    /\ response' = [returned |-> TRUE, value |-> ErrorResponse(state.conversation_id)]
    /\ pc' = "done"
    /\ UNCHANGED <<state, pending, nextNodes, stepSize, ran, history, others>>

Next ==
    \/ ProcessMessageStart
    \/ AnalyzeMessage
    \/ GenerateResponse
    \/ AnalyzeConversation
    \/ HandleEscalation
    \/ FinalizeResponse
    \/ ProcessMessageReturn
    \/ ProcessMessageExcept

Spec == Init /\ [][Next]_vars

TypeOK ==
    /\ pc \in {"idle", "graph", "done", "raised"}
    /\ pending \subseteq Nodes
    /\ nextNodes \subseteq Nodes

\* Scheduling: the event loop keeps running whatever is runnable, so a turn
\* that can take a step eventually takes one.
LiveSpec == Init /\ [][Next]_vars /\ WF_vars(Next)

\* --------------------------------------------------------------- helpers
Last(s) == s[Len(s)]
Count(s, x) == Cardinality({i \in 1..Len(s) : s[i] = x})
StartsWith(s, prefix) == Len(s) >= Len(prefix) /\ SubSeq(s, 1, Len(prefix)) = prefix
Returned == response.returned
GeneratorFailed == genResult.kind = "returned" /\ genResult.failed
Analysed == analysis.kind = "analysis"
PolicyReason(a) == <<"Conversation analysis indicates escalation needed: ", a.next_best_action>>

\* C1: whatever the three collaborators do, whichever stage faults and even
\* when the graph runner itself raises, process_message never propagates an
\* exception, and when it is over it has returned a complete AgentResponse.
C1_NeverPropagates ==
    /\ pc # "raised"
    /\ pc = "done" =>
          /\ Returned
          /\ response.value.content # EMPTY
          /\ response.value.conversation_id \in ConversationIds
          /\ response.value.should_escalate \in BOOLEAN

\* C1 witness: a turn in which all three collaborators failed has returned.
C1_Witness ==
    /\ pc = "done" /\ Returned /\ ~graphRaised
    /\ GeneratorFailed
    /\ Analysed /\ analysis.failed
    /\ escResult.kind = "analysis" /\ escResult.failed

\* C2 (as claimed): in every Turn State and in the returned AgentResponse,
\* should_escalate implies a non-empty escalation_reason.
C2_EscalationImpliesReason ==
    /\ state.should_escalate => state.escalation_reason # EMPTY
    /\ Returned => (response.value.should_escalate => response.value.escalation_reason # EMPTY)

\* the generator failed: inside the support chain (which answers with its
\* fallback) or by raising into the stage's except block
GeneratorFailedOrRaised == GeneratorFailed \/ genResult.kind = "raised"

\* C3 (as claimed): when the Response Generator fails, the returned
\* AgentResponse has confidence 0, should_escalate true and content equal to
\* the fixed apology text.
C3_FallbackContentIsApology ==
    (GeneratorFailedOrRaised /\ Returned) =>
        /\ response.value.confidence_score = 0
        /\ response.value.should_escalate
        /\ response.value.content = APOLOGY

\* C3 (amended): when the Response Generator fails, the returned
\* AgentResponse has confidence 0 and should_escalate true.  If the failure
\* was handled inside the support chain the content begins with the fixed
\* apology text: the apology alone, or the apology followed by the
\* escalation notice for the response's reason.  If the call raised into the
\* stage there is no draft: the content is the notice alone, the "couldn't
\* generate a response" text, or the apology of the runner-fault response.
C3_FallbackStartsWithApology ==
    (GeneratorFailedOrRaised /\ Returned) =>
        /\ response.value.confidence_score = 0
        /\ response.value.should_escalate
        /\ GeneratorFailed =>
              /\ StartsWith(response.value.content, APOLOGY)
              /\ \/ response.value.content = APOLOGY
                 \/ response.value.content = APOLOGY \o EscalationNote(response.value.escalation_reason)
        /\ ~GeneratorFailed =>
              \/ response.value.content = APOLOGY
              \/ response.value.content = NO_RESPONSE_TEXT
              \/ response.value.content = EscalationNote(response.value.escalation_reason)

\* C3 witness: a generator failure went through FINALIZE and the response
\* carries the apology followed by the notice.
C3_Witness ==
    /\ GeneratorFailed /\ Returned /\ ~graphRaised
    /\ response.value.content = APOLOGY \o EscalationNote(response.value.escalation_reason)

\* C4: when the Conversation Analyzer reports critical urgency, the returned
\* AgentResponse has should_escalate true.
C4_CriticalEscalates ==
    (Analysed /\ analysis.urgency = "critical" /\ Returned) => response.value.should_escalate

\* C4 witness: critical urgency as the only trigger, a generator that did not
\* ask for escalation and an Escalation Analyzer that failed.
C4_Witness ==
    /\ Returned /\ ~graphRaised
    /\ Analysed /\ analysis.urgency = "critical"
    /\ analysis.customer_satisfaction = "dissatisfied"
    /\ analysis.sentiment = "neutral" /\ analysis.should_continue
    /\ genResult.kind = "returned" /\ ~genResult.response.should_escalate
    /\ escResult.kind = "analysis" /\ escResult.failed
    /\ response.value.should_escalate

\* C5: once should_escalate is true in the Turn State no later step of the
\* turn makes it false, and the AgentResponse returned then carries true.
C5_EscalateMonotonic ==
    [][state.should_escalate =>
          /\ state'.should_escalate
          /\ response'.returned => response'.value.should_escalate]_vars

\* C5 witness: the generator raised the flag, the policy did not trigger,
\* and the turn completed with the flag still raised.
C5_Witness ==
    /\ Returned /\ ~graphRaised
    /\ genResult.kind = "returned" /\ ~genResult.failed /\ genResult.response.should_escalate
    /\ Analysed /\ ~analysis.failed
    /\ analysis.urgency = "high" /\ analysis.customer_satisfaction = "dissatisfied"
    /\ analysis.sentiment = "neutral" /\ analysis.should_continue
    /\ state.should_escalate /\ response.value.should_escalate

\* C6 (as claimed): HANDLE_ESCALATION is scheduled and entered only when
\* should_escalate was true at the branch, and always then.
C6_BranchIffEscalate ==
    /\ ("handle_escalation" \in pending \cup Range(ran)) => route = "escalate"
    /\ (route = "escalate" /\ pc = "done" /\ ~graphRaised) => "handle_escalation" \in Range(ran)

\* C7 (as claimed): FINALIZE runs at most once, nothing runs after it, and a
\* turn whose graph finished ran it exactly once.
C7_FinalizeOnceAndLast ==
    /\ Count(ran, "finalize_response") <= 1
    /\ "finalize_response" \in Range(ran) => Last(ran) = "finalize_response"
    /\ (pc = "done" /\ ~graphRaised) => Count(ran, "finalize_response") = 1

\* C8 (as claimed): no step of the graph activates more than one stage.
C8_OneStagePerStep ==
    /\ stepSize <= 1
    /\ Cardinality(pending) <= 1

\* C9: unless the graph runner itself raises, every started turn eventually
\* has run FINALIZE and returned, whichever stages fault and whichever
\* collaborators fail.
C9_ReachesFinalize ==
    ([](~graphRaised)) =>
        ((pc = "graph") ~> (pc = "done" /\ Returned /\ Last(ran) = "finalize_response"))

\* C9 witness: a turn in which every stage before FINALIZE hit a failure has
\* run FINALIZE and returned.
C9_Witness ==
    /\ pc = "done" /\ Returned /\ ~graphRaised
    /\ genResult.kind = "raised"
    /\ analysis.kind = "raised"
    /\ escResult.kind = "raised"
    /\ Last(ran) = "finalize_response"
    /\ state.messages = <<>>

\* the four triggers, as the policy is specified
C10_Triggers(a) ==
    \/ a.urgency = "critical"
    \/ a.customer_satisfaction = "very_dissatisfied"
    \/ a.sentiment = "very_negative"
    \/ a.should_continue = FALSE

\* what GENERATE_RESPONSE left in the Turn State
C10_FlagBefore == IF genResult.kind = "returned" THEN genResult.response.should_escalate ELSE TRUE
C10_ReasonBefore ==
    IF genResult.kind = "returned" THEN genResult.response.escalation_reason
    ELSE <<"Error in response generation: ", ErrDetail>>

\* C10: right after ANALYZE_CONVERSATION the policy has escalated (flag
\* true, reason composed from next_best_action) exactly when one of the four
\* triggers holds for the analysis; otherwise flag and reason are still what
\* GENERATE_RESPONSE left, in particular for urgency high, satisfaction
\* dissatisfied, should_continue true and a sentiment that is not very
\* negative.
C10_PolicyIffTrigger ==
    (ran # <<>> /\ Last(ran) = "analyze_conversation" /\ Analysed /\ pc = "graph") =>
        /\ C10_Triggers(analysis) <=> (state.escalation_reason = PolicyReason(analysis))
        /\ C10_Triggers(analysis) => state.should_escalate
        /\ ~C10_Triggers(analysis) =>
              /\ state.should_escalate = C10_FlagBefore
              /\ state.escalation_reason = C10_ReasonBefore
        /\ (/\ analysis.urgency = "high"
            /\ analysis.customer_satisfaction = "dissatisfied"
            /\ analysis.sentiment # "very_negative"
            /\ analysis.should_continue
            /\ ~C10_FlagBefore) => (~state.should_escalate /\ route = "continue")

\* C10 witness: scenario A has just been analysed and did not escalate.
C10_Witness ==
    /\ pc = "graph" /\ ran # <<>> /\ Last(ran) = "analyze_conversation"
    /\ Analysed /\ ~analysis.failed
    /\ analysis.urgency = "high" /\ analysis.customer_satisfaction = "dissatisfied"
    /\ analysis.sentiment = "neutral" /\ analysis.should_continue
    /\ genResult.kind = "returned" /\ ~genResult.response.should_escalate
    /\ ~state.should_escalate /\ route = "continue"

\* ------------------------------------------------- helpers for C11..C20
StageStep(node) == ran' = Append(ran, node)
EndsWith(s, suffix) ==
    Len(s) >= Len(suffix) /\ SubSeq(s, Len(s) - Len(suffix) + 1, Len(s)) = suffix
HasNotice(content) == NOTE_PREFIX \in Range(content)
NoRepeats(s) == Cardinality(Range(s)) = Len(s)
GraphCompleted == Returned /\ ~graphRaised
AnalyzerFailed == Analysed /\ analysis.failed
AnalyzerRaised == analysis.kind = "raised"
EscFailed == escResult.kind = "analysis" /\ escResult.failed
EscRaised == escResult.kind = "raised"
EscSucceeded == escResult.kind = "analysis" /\ ~escResult.failed
AnalyzeMessageError == <<"Error analyzing message: ", ErrDetail>>
GenerateError == <<"Error generating response: ", ErrDetail>>
NoMessageError == <<"No current message to process">>
AnalyzeConversationError == <<"Error analyzing conversation: ", ErrDetail>>
HandleEscalationError == <<"Error handling escalation: ", ErrDetail>>
FinalizeError == <<"Error finalizing response: ", ErrDetail>>

\* C11: a step in which ANALYZE_MESSAGE faulted, in which the Conversation
\* Analyzer failed or ANALYZE_CONVERSATION faulted, or in which the
\* Escalation Analyzer failed or HANDLE_ESCALATION faulted, leaves
\* should_escalate as it was on entry to the stage.
C11_FaultsKeepFlag ==
    [][(\/ StageStep("analyze_message") /\ state'.error_message = AnalyzeMessageError
        \/ StageStep("analyze_conversation") /\ analysis'.kind = "raised"
        \/ StageStep("analyze_conversation") /\ analysis'.kind = "analysis" /\ analysis'.failed
        \/ StageStep("handle_escalation") /\ escResult'.kind = "raised"
        \/ StageStep("handle_escalation") /\ escResult'.kind = "analysis" /\ escResult'.failed)
       => state'.should_escalate = state.should_escalate]_vars

\* C11 witness: the Conversation Analyzer has just failed in a turn whose
\* generator did not ask for escalation, and the flag is still false.
C11_Witness ==
    /\ pc = "graph" /\ ran # <<>> /\ Last(ran) = "analyze_conversation"
    /\ AnalyzerFailed
    /\ genResult.kind = "returned" /\ ~genResult.response.should_escalate
    /\ ~state.should_escalate

\* C12 (as claimed): once the Conversation Analyzer has failed in
\* ANALYZE_CONVERSATION, error_message is non-empty in the Turn State and in
\* the metadata of the response built from it, and the stage added no
\* escalation_<level> or priority_<score> tag.
C12_AnalyzerFailureRecorded ==
    ((AnalyzerFailed \/ AnalyzerRaised) /\ pc \in {"graph", "done"}) =>
        /\ state.error_message # EMPTY
        /\ GraphCompleted => response.value.metadata.error_message # EMPTY
        /\ Last(ran) = "analyze_conversation" =>
              Range(state.conversation_tags) \cap {"escalation_urgent", "priority_5", "priority_9"} = {}

\* C13 (as claimed): once the Escalation Analyzer has failed in
\* HANDLE_ESCALATION, escalation_reason is still the reason held on entry to
\* the stage, in the Turn State and in the response built from it, and
\* error_message is non-empty.
C13_EscFailureKeepsReason ==
    ((EscFailed \/ EscRaised) /\ pc \in {"graph", "done"}) =>
        /\ state.escalation_reason = escResult.trigger
        /\ state.error_message # EMPTY
        /\ GraphCompleted => response.value.escalation_reason = escResult.trigger

C15_NoticeIffEscalate ==
    Returned =>
        /\ EndsWith(response.value.content, EscalationNote(response.value.escalation_reason))
              <=> response.value.should_escalate
        /\ ~response.value.should_escalate => ~HasNotice(response.value.content)

\* C15 (amended): a returned AgentResponse with should_escalate false has no
\* notice; a response that ends with the notice has should_escalate true;
\* and a response built from a finished graph run whose FINALIZE did not
\* fault ends with the notice for its escalation_reason whenever
\* should_escalate is true.
C15_NoticeWhenFinalized ==
    Returned =>
        /\ ~response.value.should_escalate => ~HasNotice(response.value.content)
        /\ HasNotice(response.value.content) => response.value.should_escalate
        /\ (response.value.should_escalate /\ ~graphRaised /\ state.error_message # FinalizeError) =>
              EndsWith(response.value.content, EscalationNote(response.value.escalation_reason))

\* C15 witness: a completed turn that escalated and whose content ends with
\* the notice after a draft of the generator.
C15_Witness ==
    /\ GraphCompleted /\ response.value.should_escalate
    /\ genResult.kind = "returned" /\ ~genResult.failed
    /\ Len(response.value.content) > Len(EscalationNote(response.value.escalation_reason))
    /\ EndsWith(response.value.content, EscalationNote(response.value.escalation_reason))

\* C16 (as claimed): the conversation_tags of every returned AgentResponse
\* contain no repeated tag.
C16_NoRepeatedTags ==
    Returned => NoRepeats(response.value.metadata.conversation_tags)

\* the messages a stage can leave in error_message
StageErrors(node) ==
    CASE node = "analyze_message"      -> {AnalyzeMessageError}
      [] node = "generate_response"    -> {GenerateError, NoMessageError}
      [] node = "analyze_conversation" -> {AnalyzeConversationError}
      [] node = "handle_escalation"    -> {HandleEscalationError}
      [] node = "finalize_response"    -> {FinalizeError}

C19_ProcessingLifecycle ==
    /\ ran = <<>> => ~state.is_processing
    /\ (ran # <<>> /\ "finalize_response" \notin Range(ran)) => state.is_processing
    /\ (pending = {} /\ ran # <<>> /\ Last(ran) = "finalize_response") => ~state.is_processing

\* ------------------------------------------ the Finalizer's deduplication
\* Tag lists handed to the Finalizer: every list over four tags, up to one
\* tag longer than the analyzer's lists.
DedupAlphabet == {"billing", "urgent", "escalation_medium", "priority_5"}
DedupInputs == SeqsUpTo(DedupAlphabet, MaxTags + 1)

DedupInit ==
    /\ turn = 1
    /\ parked = IdleContext
    /\ phone = <<>>
    /\ validation = NoValidation
    /\ priority = NoPriority
    /\ AgentInstalled
    /\ pc = "finalizer"
    /\ \E t \in DedupInputs :
          /\ state = [AgentState("conv-1", NoMessage) EXCEPT !.conversation_tags = t]
          /\ analysis = [kind |-> "tags", tags |-> t]
    /\ pending = {}
    /\ nextNodes = {}
    /\ stepSize = 0
    /\ ran = <<>>
    /\ response = NoResponse
    /\ genResult = NoGen
    /\ escResult = NoEsc
    /\ route = "none"
    /\ graphRaised = FALSE

\* _finalize_response applied to the state, at most twice
ApplyFinalizer ==
    /\ pc = "finalizer"
    /\ Len(ran) < 2
    /\ \E deduped \in Dedup(state.conversation_tags) :
          state' = finalize_response_body(state, "none", deduped)
    /\ ran' = Append(ran, "finalize_response")
    /\ UNCHANGED <<pc, pending, nextNodes, stepSize, response, history, graphRaised, others>>

DedupNext == ApplyFinalizer

DedupSpec == DedupInit /\ [][DedupNext]_vars

\* C17: every application of the Finalizer leaves tags without repeats that
\* are, as a set, the tags it was given; the second application yields the
\* same set of tags (and as many) as the first.
C17_DedupIdempotent ==
    [][StageStep("finalize_response") =>
          /\ NoRepeats(state'.conversation_tags)
          /\ Range(state'.conversation_tags) = Range(state.conversation_tags)
          /\ Range(state'.conversation_tags) = Range(analysis.tags)
          /\ Len(ran) = 1 => Len(state'.conversation_tags) = Len(state.conversation_tags)]_vars

\* C17 witness: the Finalizer has run twice on a list that had a repeated
\* tag and two distinct ones.
C17_Witness ==
    /\ pc = "finalizer" /\ Len(ran) = 2
    /\ Len(analysis.tags) = 3
    /\ Cardinality(Range(analysis.tags)) = 2
    /\ Len(state.conversation_tags) = 2

\* ------------------------------------------------- two concurrent turns
\* The event loop suspends the running invocation at an await and resumes
\* the other one.
Switch ==
    /\ turn' = 3 - turn
    /\ parked' = CurrentContext
    /\ pc' = parked.pc
    /\ state' = parked.state
    /\ pending' = parked.pending
    /\ nextNodes' = parked.nextNodes
    /\ stepSize' = parked.stepSize
    /\ ran' = parked.ran
    /\ response' = parked.response
    /\ genResult' = parked.genResult
    /\ analysis' = parked.analysis
    /\ escResult' = parked.escResult
    /\ route' = parked.route
    /\ graphRaised' = parked.graphRaised
    /\ UNCHANGED <<validator, priority, service>>

\* Collaborator results kept small for the two-turn runs: no stage faults,
\* one draft, one confidence, no analyzer tags, one escalation level.
SmallTurn ==
    /\ state.error_message = EMPTY
    /\ genResult.kind = "returned" =>
          \/ genResult.failed /\ ~genResult.malformed
          \/ /\ ~genResult.failed
             /\ genResult.response.content # EMPTY
             /\ genResult.response.confidence_score = 85
             /\ genResult.response.should_escalate <=> genResult.response.escalation_reason # EMPTY
    /\ analysis.kind = "analysis" =>
          \/ analysis.failed
          \/ /\ analysis.sentiment = "neutral"
             /\ analysis.customer_satisfaction = "dissatisfied"
             /\ analysis.should_continue
             /\ analysis.tags = <<>>
    /\ escResult.kind = "analysis" =>
          \/ escResult.failed
          \/ escResult.escalation_level = "medium" /\ escResult.escalation_reason # EMPTY

PairNext ==
    \/ ProcessMessageStart /\ SmallTurn'
    \/ AnalyzeMessage /\ SmallTurn'
    \/ GenerateResponse /\ SmallTurn'
    \/ AnalyzeConversation /\ SmallTurn'
    \/ HandleEscalation /\ SmallTurn'
    \/ FinalizeResponse /\ SmallTurn'
    \/ ProcessMessageReturn
    \/ ProcessMessageExcept
    \/ Switch

PairSpec == Init /\ [][PairNext]_vars

\* the data of invocation t is its own: the conversation id and message it
\* was called with, and a response assembled from its own state
OwnData(c, t) ==
    c.pc # "idle" =>
        /\ c.state.conversation_id \in IdsOf(t)
        /\ c.state.current_message.present
        /\ c.state.current_message.content \in MessagesOf(t)
        /\ Range(c.state.messages) \subseteq MessagesOf(t)
        /\ Len(c.state.messages) <= 1
        /\ \A i \in 1..Len(c.state.conversation_history) :
              c.state.conversation_history[i].content \in MessagesOf(t)
        /\ c.response.returned =>
              c.response.value =
                  IF c.graphRaised THEN ErrorResponse(c.state.conversation_id)
                  ELSE ResponseFrom(c.state, c.state.conversation_id)

\* C20: in every interleaving of two invocations, a step of one invocation
\* leaves the other's frame (its Turn State included) untouched, a switch
\* only exchanges the frames, and each invocation's Turn State and response
\* hold only what that invocation was called with and computed itself.
C20_TurnStateIsolation ==
    [][/\ turn' = turn => parked' = parked
       /\ turn' # turn => (parked' = CurrentContext /\ CurrentContext' = parked)
       /\ OwnData(CurrentContext', turn')
       /\ OwnData(parked', 3 - turn')]_vars

\* C20 witness: the second invocation, for the same conversation id, ran to
\* completion while the first was suspended between GENERATE_RESPONSE and
\* ANALYZE_CONVERSATION, and the first one's state holds only its message.
C20_Witness ==
    /\ turn = 2 /\ pc = "done" /\ GraphCompleted
    /\ state.conversation_id = "conv-1"
    /\ parked.pc = "graph" /\ Len(parked.ran) = 2
    /\ parked.state.conversation_id = "conv-1"
    /\ parked.state.messages = <<<<"I'm being charged twice this month">>>>
    /\ state.messages = <<<<"Thank you for escalating this">>>>

\* ------------------------------------------------- helpers for C21..C30
\* a step of the running invocation's own pipeline
TurnStep ==
    \/ AnalyzeMessage
    \/ GenerateResponse
    \/ AnalyzeConversation
    \/ HandleEscalation
    \/ FinalizeResponse
    \/ ProcessMessageReturn

\* C21: whatever the other invocation is doing (suspended in the middle of
\* its pipeline, for the same conversation id or another one), the running
\* invocation can take its next step: an invocation that has not started can
\* start, also for the conversation id of the suspended one, and a started
\* one can run its next stage or return; and the suspended one can be
\* resumed.
C21_NoTurnWaits ==
    /\ pc = "idle" => ENABLED (ProcessMessageStart /\ state'.conversation_id = "conv-1")
    /\ pc = "graph" => ENABLED (TurnStep /\ SmallTurn')
    /\ ENABLED Switch

\* C21 witness: the second invocation, for the same conversation id, went
\* through every stage of the escalate branch and returned while the first
\* was suspended at its Response Generator call.
C21_Witness ==
    /\ turn = 2 /\ GraphCompleted
    /\ state.conversation_id = "conv-1"
    /\ route = "escalate" /\ EscSucceeded
    /\ Len(ran) = 5
    /\ parked.pc = "graph" /\ parked.pending = {"generate_response"}
    /\ parked.state.conversation_id = "conv-1"

\* ------------------------------------------------------------ cancellation
\* The stages that await a collaborator, given the state they would run on.
AwaitingCollaborator(st, nodes) ==
    \/ "generate_response" \in nodes /\ st.current_message.present
    \/ "analyze_conversation" \in nodes
    \/ "handle_escalation" \in nodes /\ st.should_escalate

\* The request's task is cancelled while the invocation is suspended at a
\* collaborator call: CancelledError is raised at the await, it is not an
\* Exception, so neither the stage's nor process_message's except block
\* catches it, and the invocation ends without a response.  Its AgentState
\* was a local of the invocation; the frame stays here only as a dead record.
Cancel ==
    /\ pc = "graph"
    /\ AwaitingCollaborator(state, pending)
    /\ pc' = "cancelled"
    /\ UNCHANGED <<state, pending, nextNodes, stepSize, ran, response, history, graphRaised, others>>

CancelNext ==
    \/ ProcessMessageStart /\ SmallTurn'
    \/ AnalyzeMessage /\ SmallTurn'
    \/ GenerateResponse /\ SmallTurn'
    \/ AnalyzeConversation /\ SmallTurn'
    \/ HandleEscalation /\ SmallTurn'
    \/ FinalizeResponse /\ SmallTurn'
    \/ ProcessMessageReturn
    \/ ProcessMessageExcept
    \/ Cancel
    \/ Switch

CancelSpec == Init /\ [][CancelNext]_vars

\* the frame of an invocation right after process_message built its state
StartedContext(cid, content) ==
    [IdleContext EXCEPT !.pc = "graph",
                        !.state = AgentState(cid, [present |-> TRUE, content |-> content]),
                        !.pending = {"analyze_message"},
                        !.stepSize = 1]

\* C22: a cancellation changes nothing but the cancelled invocation's own
\* position: the other invocation's frame is untouched and no response is
\* produced; a cancelled invocation never takes another step; an invocation
\* started afterwards (also for the same conversation id) starts from
\* exactly the fresh state a first invocation starts from, and all it ever
\* holds is its own conversation id, message and results.
C22_NoResidue ==
    [][/\ (turn' = turn /\ pc = "graph" /\ pc' = "cancelled") =>
             /\ parked' = parked
             /\ state' = state /\ response' = NoResponse
       /\ (pc = "cancelled" /\ turn' = turn) => CurrentContext' = CurrentContext
       /\ (turn' = turn /\ pc = "idle" /\ pc' = "graph") =>
             /\ parked' = parked
             /\ \E cid \in IdsOf(turn), content \in MessagesOf(turn) :
                    CurrentContext' = StartedContext(cid, content)
       /\ OwnData(CurrentContext', turn')
       /\ OwnData(parked', 3 - turn')]_vars

\* C22 witness: the first invocation was cancelled at its Conversation
\* Analyzer call; the second one, started afterwards for the same
\* conversation id, completed holding only its own message.
C22_Witness ==
    /\ turn = 2 /\ GraphCompleted
    /\ state.conversation_id = "conv-1"
    /\ state.messages = <<<<"Thank you for escalating this">>>>
    /\ parked.pc = "cancelled" /\ parked.pending = {"analyze_conversation"}
    /\ parked.state.conversation_id = "conv-1"
    /\ parked.state.messages = <<<<"I'm being charged twice this month">>>>

\* ------------------------------------------------------------ the history
\* the entry ANALYZE_MESSAGE builds for the current message
HistoryEntry(st) == [role |-> "user", content |-> st.current_message.content]

\* C23 (as claimed): when the pipeline is at FINALIZE the history is the
\* initial (empty) history followed by the current message.
C23_HistoryAtFinalize ==
    (pc = "graph" /\ "finalize_response" \in pending) =>
        /\ state.conversation_history = <<HistoryEntry(state)>>
        /\ state.messages = <<state.current_message.content>>

\* C23 (amended): only ANALYZE_MESSAGE changes the history, and only by
\* appending the current message at its end; it runs once, appends at most
\* once, and exactly once when it completes without a fault; every other
\* step leaves the history (and the message list) as it is.
C23_HistoryAppendOnly ==
    [][/\ Count(ran', "analyze_message") <= 1
       /\ StageStep("analyze_message") =>
             /\ state'.conversation_history \in
                    {state.conversation_history,
                     Append(state.conversation_history, HistoryEntry(state))}
             /\ state'.messages \in
                    {state.messages, Append(state.messages, state.current_message.content)}
             /\ state'.error_message # AnalyzeMessageError =>
                    /\ state'.conversation_history =
                           Append(state.conversation_history, HistoryEntry(state))
                    /\ state'.messages = Append(state.messages, state.current_message.content)
       /\ (pc = "graph" /\ ~StageStep("analyze_message")) =>
             /\ state'.conversation_history = state.conversation_history
             /\ state'.messages = state.messages
       /\ ("finalize_response" \in pending' /\ state'.error_message = EMPTY) =>
             state'.conversation_history = <<HistoryEntry(state')>>]_vars

\* C23 witness: a turn whose ANALYZE_MESSAGE did not fault is at FINALIZE
\* on the escalate branch with the current message as its only entry.
C23_Witness ==
    /\ pc = "graph" /\ pending = {"finalize_response"}
    /\ "handle_escalation" \in Range(ran) /\ route = "escalate"
    /\ state.error_message = EMPTY
    /\ state.conversation_history = <<HistoryEntry(state)>>
    /\ state.messages = <<state.current_message.content>>

\* ------------------------------------------- a turn without a current message
\* The graph run on an AgentState built without a current_message (the
\* field is optional: only conversation_id is given).
InvokeWithoutMessage ==
    /\ pc = "idle"
    /\ \E cid \in IdsOf(turn) : state' = AgentState(cid, NoMessage)
    /\ pc' = "graph"
    /\ pending' = {"analyze_message"}
    /\ nextNodes' = {}
    /\ stepSize' = 1
    /\ UNCHANGED <<ran, response, history, graphRaised, others>>

NoMessageNext ==
    \/ InvokeWithoutMessage
    \/ AnalyzeMessage
    \/ GenerateResponse
    \/ AnalyzeConversation
    \/ HandleEscalation
    \/ FinalizeResponse
    \/ ProcessMessageReturn
    \/ ProcessMessageExcept

NoMessageSpec == Init /\ [][NoMessageNext]_vars

\* C24 (as claimed): in a turn without a current message, the state that
\* leaves ANALYZE_MESSAGE already has a non-empty error_message, and the
\* pipeline goes on to GENERATE_RESPONSE.
C24_MissingMessageRecorded ==
    (pc = "graph" /\ ~state.current_message.present /\ ran = <<"analyze_message">>) =>
        /\ state.error_message # EMPTY
        /\ pending = {"generate_response"}

\* ------------------------------------------------ order of the collaborators
CollaboratorStages == {"generate_response", "analyze_conversation", "handle_escalation"}
GeneratorInvoked == genResult.kind \in {"returned", "raised"}
AnalyzerInvoked == analysis.kind \in {"analysis", "raised"}
EscalationInvoked == escResult.kind \in {"analysis", "raised"}
\* position of a stage in the order of execution (0: has not run)
Pos(node) == IF node \in Range(ran) THEN CHOOSE i \in 1..Len(ran) : ran[i] = node ELSE 0

\* C25: the stages that call a collaborator run at most once each and never
\* side by side; the Conversation Analyzer is called only after the
\* Response Generator stage has completed, the Escalation Analyzer only
\* after the Conversation Analyzer stage has completed, and only in a turn
\* whose should_escalate was true after ANALYZE_CONVERSATION.
C25_CollaboratorOrder ==
    /\ \A n \in CollaboratorStages : Count(ran, n) <= 1
    /\ Cardinality(pending \cap CollaboratorStages) <= 1
    /\ GeneratorInvoked => Pos("generate_response") > 0
    /\ AnalyzerInvoked =>
          /\ Pos("generate_response") > 0
          /\ Pos("generate_response") < Pos("analyze_conversation")
    /\ "handle_escalation" \in pending => ~EscalationInvoked
    /\ EscalationInvoked =>
          /\ Pos("analyze_conversation") > 0
          /\ Pos("analyze_conversation") < Pos("handle_escalation")
          /\ route = "escalate"
          /\ state.should_escalate
    /\ (route = "continue" /\ Pos("handle_escalation") > 0) => escResult.kind = "skipped"

\* C25 witness: a completed turn in which all three collaborators were
\* called, one after the other.
C25_Witness ==
    /\ GraphCompleted
    /\ ran = <<"analyze_message", "generate_response", "analyze_conversation",
               "handle_escalation", "finalize_response">>
    /\ GeneratorInvoked /\ AnalyzerInvoked /\ EscalationInvoked

\* C26: a step of ANALYZE_CONVERSATION in which the policy triggers leaves
\* should_escalate true and escalation_reason equal to the fixed prefix
\* followed by the analyzer's next_best_action, whatever reason was there
\* before; a step in which it does not trigger (the analysis matches no
\* trigger, the analyzer failed, or the stage faulted) leaves should_escalate
\* and escalation_reason as they were on entry.
C26_PolicyOverwritesReason ==
    [][StageStep("analyze_conversation") =>
          IF analysis'.kind = "analysis" /\ C10_Triggers(analysis')
          THEN /\ state'.should_escalate
               /\ state'.escalation_reason =
                      <<"Conversation analysis indicates escalation needed: ",
                        analysis'.next_best_action>>
          ELSE /\ state'.should_escalate = state.should_escalate
               /\ state'.escalation_reason = state.escalation_reason]_vars

\* C26 witness: the Response Generator had asked for escalation with a
\* reason of its own, the policy triggered, and the reason is now the
\* policy's.
C26_Witness ==
    /\ pc = "graph" /\ ran # <<>> /\ Last(ran) = "analyze_conversation"
    /\ genResult.kind = "returned" /\ ~genResult.failed
    /\ genResult.response.should_escalate
    /\ genResult.response.escalation_reason = <<"billing dispute">>
    /\ Analysed /\ analysis.sentiment = "very_negative"
    /\ state.should_escalate
    /\ state.escalation_reason = PolicyReason(analysis)

\* ---------------------------------------------------------- output assembly
\* the fields the response takes over from the final Turn State as they are
FieldsCopied(r, st) ==
    /\ r.conversation_id = st.conversation_id
    /\ r.conversation_id \in IdsOf(turn)
    /\ r.should_escalate = st.should_escalate
    /\ r.escalation_reason = st.escalation_reason
    /\ r.confidence_score = st.confidence_score
    /\ r.metadata.conversation_tags = st.conversation_tags
    /\ r.metadata.error_message = st.error_message

\* C27 (as claimed): whenever the pipeline reached FINALIZE, the returned
\* AgentResponse carries the caller's conversation id, the final state's
\* should_escalate, escalation_reason, confidence_score, conversation_tags
\* and error_message, and the final generated response as its content.
C27_AssemblyCopiesAll ==
    (Returned /\ "finalize_response" \in Range(ran)) =>
        /\ FieldsCopied(response.value, state)
        /\ response.value.content = state.generated_response

\* C27 (amended): when the graph run returned its final state, the
\* AgentResponse carries those fields of the final state, and its content is
\* the final generated response if that is non-empty and the fixed
\* "couldn't generate a response" text otherwise.
C27_AssemblyCopies ==
    (GraphCompleted /\ "finalize_response" \in Range(ran)) =>
        /\ FieldsCopied(response.value, state)
        /\ state.generated_response # EMPTY =>
              response.value.content = state.generated_response
        /\ state.generated_response = EMPTY =>
              response.value.content = NO_RESPONSE_TEXT

\* C27 witness: a completed turn whose generator returned an empty draft
\* and a reason without asking for escalation; the response carries the
\* reason and the fixed text.
C27_Witness ==
    /\ GraphCompleted /\ Last(ran) = "finalize_response"
    /\ genResult.kind = "returned" /\ ~genResult.failed
    /\ state.generated_response = EMPTY
    /\ ~state.should_escalate
    /\ state.escalation_reason = <<"billing dispute">>
    /\ response.value.escalation_reason = <<"billing dispute">>
    /\ response.value.content = NO_RESPONSE_TEXT

MaxPhoneDigits == 16
MinValidDigits == 7
MaxValidDigits == 15

PhoneDigitChars == {"1", "5"}
PhoneOtherChars == {"+", "-", "x"}

RECURSIVE Repeat(_, _)
Repeat(c, n) == IF n = 0 THEN <<>> ELSE <<c>> \o Repeat(c, n - 1)

\* a run of n digits beginning with the given one
DigitRun(first, n) == <<first>> \o Repeat("5", n - 1)

\* Phone strings: an optional "+", a run of digits beginning with 1 or 5,
\* split at some place by nothing, a dash or a letter; and strings without
\* any digit.
SplitAt(s, k) == IF k < Len(s) THEN k ELSE Len(s)

PhoneInputs ==
    {lead \o SubSeq(DigitRun(first, n), 1, SplitAt(DigitRun(first, n), k)) \o sep
          \o SubSeq(DigitRun(first, n), SplitAt(DigitRun(first, n), k) + 1, n) :
        lead \in {<<>>, <<"+">>}, first \in PhoneDigitChars,
        n \in 1..MaxPhoneDigits, k \in {0, 1, 3},
        sep \in {<<>>} \cup {<<c>> : c \in PhoneOtherChars}}
    \cup {<<>>, <<"+">>, <<"-", "x">>}

\* re.sub(r"\D", "", phone)
digits_only(s) == SelectSeq(s, LAMBDA c : c \in PhoneDigitChars)

\* Variant that measures the string as typed.
validate_phone_number_raw_length(s) ==
    IF s = <<>>
    THEN [kind |-> "result", is_valid |-> FALSE, error |-> <<"Phone number cannot be empty">>]
    ELSE IF Len(s) < MinValidDigits \/ Len(s) > MaxValidDigits
    THEN [kind |-> "result", is_valid |-> FALSE,
          error |-> <<"Phone number must be 7-15 digits, got ", Len(s)>>]
    ELSE [kind |-> "result", is_valid |-> TRUE, error |-> EMPTY]

\* validate_phone_number: every branch below the length check returns
\* (True, None).
validate_phone_number(s) ==
    IF s = <<>>
    THEN [kind |-> "result", is_valid |-> FALSE, error |-> <<"Phone number cannot be empty">>]
    ELSE IF Len(digits_only(s)) < MinValidDigits \/ Len(digits_only(s)) > MaxValidDigits
    THEN [kind |-> "result", is_valid |-> FALSE,
          error |-> <<"Phone number must be 7-15 digits, got ", Len(digits_only(s))>>]
    ELSE [kind |-> "result", is_valid |-> TRUE, error |-> EMPTY]

PhoneInit ==
    /\ phone \in PhoneInputs
    /\ validation = NoValidation
    /\ priority = NoPriority
    /\ AgentInstalled
    /\ turn = 1
    /\ parked = IdleContext
    /\ pc = "idle"
    /\ state = AgentState("", NoMessage)
    /\ pending = {}
    /\ nextNodes = {}
    /\ stepSize = 0
    /\ ran = <<>>
    /\ response = NoResponse
    /\ genResult = NoGen
    /\ analysis = NoAnalysis
    /\ escResult = NoEsc
    /\ route = "none"
    /\ graphRaised = FALSE

ValidatePhone ==
    /\ validation = NoValidation
    /\ validation' = validate_phone_number(phone)
    /\ UNCHANGED <<phone, pc, state, pending, nextNodes, stepSize, ran, response,
                   history, graphRaised, turn, parked, priority, service>>

PhoneNext == ValidatePhone

PhoneSpec == PhoneInit /\ [][PhoneNext]_vars

\* number of digit characters in a string
DigitCount(s) == Cardinality({i \in 1..Len(s) : s[i] \in {"1", "5"}})

\* C30: validate_phone_number answers is_valid = true exactly for the
\* non-empty strings that hold between 7 and 15 digits, whatever other
\* characters they hold; every rejection comes with an error message and
\* every acceptance without one.
C30_PhoneValidIffDigits ==
    validation # NoValidation =>
        /\ validation.is_valid <=>
              (phone # <<>> /\ DigitCount(phone) >= 7 /\ DigitCount(phone) <= 15)
        /\ validation.is_valid => validation.error = EMPTY
        /\ ~validation.is_valid => validation.error # EMPTY
        /\ phone = <<>> => validation.error = <<"Phone number cannot be empty">>

\* C30 witness: a string of 17 characters with 15 digits was accepted.
C30_Witness ==
    /\ validation # NoValidation /\ validation.is_valid
    /\ Len(phone) = 17 /\ DigitCount(phone) = 15

\* ------------------------------------------------- the runner-fault fallback
\* C33: when graph execution itself raises inside process_message, the
\* returned AgentResponse carries the caller's conversation_id, the fixed
\* technical-difficulties apology as content, confidence_score 0,
\* response_time 0, should_escalate true and a non-empty escalation_reason
\* that embeds the error text.
C33_RunnerFaultFallback ==
    (graphRaised /\ Returned) =>
        /\ response.value.conversation_id = state.conversation_id
        /\ response.value.content = APOLOGY
        /\ response.value.confidence_score = 0
        /\ response.value.response_time = 0
        /\ response.value.should_escalate
        /\ response.value.escalation_reason # EMPTY
        /\ ErrDetail \in Range(response.value.escalation_reason)

\* C33 witness: the runner raised after the generator had produced a draft
\* with a confidence of its own, and the fallback has been returned.
C33_Witness ==
    /\ graphRaised /\ Returned /\ pc = "done"
    /\ genResult.kind = "returned" /\ ~genResult.failed
    /\ state.confidence_score = 85
    /\ state.generated_response # EMPTY
    /\ response.value.content = APOLOGY

\* ------------------------------------------ HANDLE_ESCALATION without a flag
\* C34: a step of HANDLE_ESCALATION entered with should_escalate false
\* leaves every field of the Turn State as it was (escalation_reason, tags
\* and error_message among them) and does not call the Escalation Analyzer.
C34_NoEscalationNoOp ==
    [][(StageStep("handle_escalation") /\ ~state.should_escalate) =>
          /\ state' = state
          /\ escResult'.kind = "skipped"]_vars

\* C34 witness: HANDLE_ESCALATION has run in a turn that did not escalate,
\* after the analyzer had left tags in the Turn State.
C34_Witness ==
    /\ pc = "graph"
    /\ "handle_escalation" \in Range(ran)
    /\ ~state.should_escalate
    /\ escResult.kind = "skipped"
    /\ state.conversation_tags # <<>>

\* ------------------------------------------------------ one notice per turn
\* C35: the escalation notice is appended to the generated content at most
\* once per turn: whatever stages run and however often, neither the Turn
\* State nor the returned content holds the notice twice.
C35_NoticeAtMostOnce ==
    /\ Count(state.generated_response, NOTE_PREFIX) <= 1
    /\ Returned => Count(response.value.content, NOTE_PREFIX) <= 1

\* C35 witness: an escalated turn has completed and its content holds the
\* notice once.
C35_Witness ==
    /\ GraphCompleted
    /\ response.value.should_escalate
    /\ Count(response.value.content, NOTE_PREFIX) = 1
    /\ Count(ran, "finalize_response") = 1

\* ------------------------------------------------- the escalation trigger
\* the escalation_reason the Turn State holds when the branch is taken: the
\* policy's reason if the policy triggered, else what GENERATE_RESPONSE left
BranchReason ==
    IF Analysed /\ C10_Triggers(analysis) THEN PolicyReason(analysis) ELSE C10_ReasonBefore

\* C36: a step of HANDLE_ESCALATION that calls the Escalation Analyzer
\* passes as escalation_trigger the escalation_reason the Turn State held
\* when the branch was taken, and it is the first HANDLE_ESCALATION step of
\* the turn: no reason written by HANDLE_ESCALATION is ever passed back in.
C36_TriggerIsBranchReason ==
    [][(StageStep("handle_escalation") /\ escResult'.kind \in {"analysis", "raised"}) =>
          /\ escResult'.trigger = BranchReason
          /\ escResult'.trigger = state.escalation_reason
          /\ "handle_escalation" \notin Range(ran)
          /\ escResult.kind = "none"]_vars

\* C36 witness: the policy triggered over a reason of the generator, the
\* analyzer was called with the policy's reason and has replaced it.
C36_Witness ==
    /\ pc = "graph" /\ ran # <<>> /\ Last(ran) = "handle_escalation"
    /\ genResult.kind = "returned" /\ ~genResult.failed
    /\ genResult.response.escalation_reason = <<"billing dispute">>
    /\ Analysed /\ C10_Triggers(analysis)
    /\ EscSucceeded
    /\ escResult.trigger = PolicyReason(analysis)
    /\ state.escalation_reason = <<"customer disputes a double charge">>

\* ------------------------------------------------------- the two graphs
\* Edges of agent_graph._create_support_graph: analyze_conversation has only
\* the conditional edges; r is what _should_escalate_router returns.
SupportGraphSuccessors(node, r) ==
    CASE node = "analyze_message"      -> {"generate_response"}
      [] node = "generate_response"    -> {"analyze_conversation"}
      [] node = "analyze_conversation" ->
            {IF r = "escalate" THEN "handle_escalation" ELSE "finalize_response"}
      [] node = "handle_escalation"    -> {"finalize_response"}
      [] node = "finalize_response"    -> {}

\* the stages a run of that graph visits from a node on, in order, when the
\* router answers r at the branch
RECURSIVE SupportGraphRun(_, _)
SupportGraphRun(node, r) ==
    LET next == SupportGraphSuccessors(node, r)
    IN  <<node>> \o (IF next = {} THEN <<>>
                     ELSE SupportGraphRun(CHOOSE n \in next : TRUE, r))

\* set_entry_point("analyze_message")
SupportGraphPath(r) == SupportGraphRun("analyze_message", r)

\* C32 (as claimed): the graph of SupportAgent._create_graph is equivalent
\* to the strictly-conditional graph of _create_support_graph: whatever
\* should_escalate is at the branch, a finished run has visited exactly the
\* stages the strictly-conditional graph visits, in the same order (and so,
\* the stages and their inputs being the same, ends in the same Turn State).
C32_GraphsEquivalent ==
    GraphCompleted => ran = SupportGraphPath(route)

\* ------------------------------------------------------ response priority
\* Arguments tried: the four known urgencies and the three known tiers,
\* other spellings of them, unknown names and the empty string;
\* business_hours given or left None.
UrgencyInputs == {"low", "medium", "high", "critical", "HIGH", "Critical", "urgent", ""}
TierInputs == {"standard", "premium", "vip", "VIP", "Premium", "gold", ""}
BusinessHoursInputs == {"None", "True", "False"}

\* str.lower() on the strings tried
lower(s) ==
    CASE s = "HIGH"     -> "high"
      [] s = "Critical" -> "critical"
      [] s = "VIP"      -> "vip"
      [] s = "Premium"  -> "premium"
      [] OTHER          -> s

\* urgency_scores.get(urgency.lower(), 3)
urgency_scores(urgency) ==
    CASE lower(urgency) = "low"      -> 1
      [] lower(urgency) = "medium"   -> 3
      [] lower(urgency) = "high"     -> 6
      [] lower(urgency) = "critical" -> 9
      [] OTHER                       -> 3

\* tier_multipliers.get(customer_tier.lower(), 1.0), in tenths
tier_multipliers(customer_tier) ==
    CASE lower(customer_tier) = "standard" -> 10
      [] lower(customer_tier) = "premium"  -> 15
      [] lower(customer_tier) = "vip"      -> 20
      [] OTHER                             -> 10

\* the factor applied for the time of day, in tenths: 1.0 in business hours,
\* 0.8 outside; clock is what is_business_hours() answers when the argument
\* is None
hours_factor(business_hours, clock) ==
    LET in_hours == IF business_hours = "None" THEN clock ELSE business_hours = "True"
    IN  IF in_hours THEN 10 ELSE 8

\* adjusted_score in hundredths, before int() and the clamp
adjusted_score(urgency, customer_tier, business_hours, clock) ==
    urgency_scores(urgency) * tier_multipliers(customer_tier)
        * hours_factor(business_hours, clock)

Max(a, b) == IF a >= b THEN a ELSE b
Min(a, b) == IF a <= b THEN a ELSE b

\* Variant that returns int(adjusted_score) without the clamp.
calculate_response_priority_no_clamp(urgency, customer_tier, business_hours, clock) ==
    adjusted_score(urgency, customer_tier, business_hours, clock) \div 100

\* calculate_response_priority: max(1, min(10, int(adjusted_score))); int()
\* truncates, and no product tried is within rounding error of an integer.
calculate_response_priority(urgency, customer_tier, business_hours, clock) ==
    Max(1, Min(10, adjusted_score(urgency, customer_tier, business_hours, clock) \div 100))

PriorityInit ==
    /\ priority \in [kind : {"call"}, urgency : UrgencyInputs, customer_tier : TierInputs,
                     business_hours : BusinessHoursInputs, clock : BOOLEAN]
    /\ phone = <<>>
    /\ validation = NoValidation
    /\ AgentInstalled
    /\ turn = 1
    /\ parked = IdleContext
    /\ pc = "idle"
    /\ state = AgentState("", NoMessage)
    /\ pending = {}
    /\ nextNodes = {}
    /\ stepSize = 0
    /\ ran = <<>>
    /\ response = NoResponse
    /\ genResult = NoGen
    /\ analysis = NoAnalysis
    /\ escResult = NoEsc
    /\ route = "none"
    /\ graphRaised = FALSE

CalculatePriority ==
    /\ priority.kind = "call"
    /\ priority' = [priority EXCEPT !.kind = "result"]
                   @@ [result |-> calculate_response_priority(
                                      priority.urgency, priority.customer_tier,
                                      priority.business_hours, priority.clock)]
    /\ UNCHANGED <<pc, state, pending, nextNodes, stepSize, ran, response, history,
                   graphRaised, turn, parked, validator, service>>

PriorityNext == CalculatePriority

PrioritySpec == PriorityInit /\ [][PriorityNext]_vars

\* low, medium, high, critical
UrgencyOrder == <<"low", "medium", "high", "critical">>

\* C38: calculate_response_priority returns an integer in 1..10 for every
\* urgency and customer tier, known or unknown, and either value of
\* business_hours; and with the call's tier and business_hours kept, the
\* result does not decrease along low, medium, high, critical.
C38_PriorityInRangeAndMonotone ==
    priority.kind = "result" =>
        /\ priority.result \in 1..10
        /\ \A i \in 1..3 :
              calculate_response_priority(UrgencyOrder[i], priority.customer_tier,
                                          priority.business_hours, priority.clock)
                <= calculate_response_priority(UrgencyOrder[i + 1], priority.customer_tier,
                                               priority.business_hours, priority.clock)
        /\ \A i \in 1..4 :
              lower(priority.urgency) = UrgencyOrder[i] =>
                  priority.result =
                      calculate_response_priority(UrgencyOrder[i], priority.customer_tier,
                                                  priority.business_hours, priority.clock)

\* C38 witness: a critical message of a VIP customer outside business hours
\* (14.4 before the clamp) has been given priority 10.
C38_Witness ==
    /\ priority.kind = "result"
    /\ priority.urgency = "critical" /\ priority.customer_tier = "VIP"
    /\ priority.business_hours = "False"
    /\ priority.result = 10

\* --------------------------------------------- the application around the agent
\* SupportAgent.__init__: the attributes it assigns, in the order of its
\* statements; "graph" is assigned the result of _create_graph().
InitAssignments ==
    <<"support_chain", "conversation_chain", "escalation_chain", "graph", "memory">>

\* the instance attributes _create_graph reads: compile(checkpointer=self.memory)
CreateGraphReads == {"memory"}

\* Running the assignments from the i-th on: reading an attribute that has
\* not been assigned raises AttributeError out of __init__, and nothing after
\* it runs.
RECURSIVE Construct(_, _)
Construct(i, assigned) ==
    IF i > Len(InitAssignments)
    THEN [raised |-> FALSE, assigned |-> assigned]
    ELSE IF InitAssignments[i] = "graph" /\ ~(CreateGraphReads \subseteq assigned)
    THEN [raised |-> TRUE, assigned |-> assigned]
    ELSE Construct(i + 1, assigned \cup {InitAssignments[i]})

\* SupportAgent()
SupportAgent_init == Construct(1, {})

\* lifespan up to the yield: the global is bound only if the constructor
\* returns; an exception is logged and raised again, which ends the startup.
Lifespan ==
    /\ startup = NotStarted
    /\ pc = "idle"
    /\ hook = NoHook
    /\ startup' = [kind |-> IF SupportAgent_init.raised THEN "failed" ELSE "complete",
                   assigned |-> SupportAgent_init.assigned]
    /\ support_agent' = IF SupportAgent_init.raised THEN support_agent ELSE "agent"
    /\ UNCHANGED <<pc, state, pending, nextNodes, stepSize, ran, response, history,
                   graphRaised, turn, parked, validator, priority, hook>>

\* AgentResponse.timestamp, which the webhook passes on
timestamp(r) == "generated"

\* the WebhookResponse built after process_message returned
WebhookSuccess(conversation_id, r) ==
    [success            |-> TRUE,
     message            |-> "Message processed successfully",
     conversation_id    |-> conversation_id,
     response_content   |-> r.content,
     response_timestamp |-> timestamp(r),
     processing_time    |-> r.response_time,
     agent_used         |-> "support_agent"]

\* the WebhookResponse built in the except block
WebhookFailure(conversation_id) ==
    [success         |-> FALSE,
     message         |-> "Failed to process message",
     conversation_id |-> conversation_id,
     error_code      |-> "PROCESSING_ERROR",
     error_details   |-> ErrDetail]

\* Variant that reports a turn recommending escalation as a failure.
imessage_webhook_result_degraded_fails(raised, conversation_id, returned) ==
    IF raised \/ returned.value.should_escalate
    THEN [kind |-> "response", raised |-> raised, value |-> WebhookFailure(conversation_id)]
    ELSE [kind |-> "response", raised |-> FALSE,
          value |-> WebhookSuccess(conversation_id, returned.value)]

\* imessage_webhook from the await on.  raised: something inside the try
\* block raised (process_message, or building the WebhookResponse).
imessage_webhook_result(raised, conversation_id, returned) ==
    IF raised
    THEN [kind |-> "response", raised |-> TRUE, value |-> WebhookFailure(conversation_id)]
    ELSE [kind |-> "response", raised |-> FALSE,
          value |-> WebhookSuccess(conversation_id, returned.value)]

\* imessage_webhook with no agent: HTTPException(status_code=503)
WebhookUnavailable ==
    /\ startup.kind # "failed"
    /\ hook = NoHook
    /\ pc = "idle"
    /\ support_agent = "None"
    /\ hook' = [kind |-> "http_error", status_code |-> 503,
                detail |-> "Support agent not initialized"]
    /\ UNCHANGED <<pc, state, pending, nextNodes, stepSize, ran, response, history,
                   graphRaised, turn, parked, validator, priority, support_agent, startup>>

\* imessage_webhook with an agent, up to the await of process_message
WebhookReceive ==
    /\ startup.kind # "failed"
    /\ hook = NoHook
    /\ support_agent = "agent"
    /\ ProcessMessageStart

\* imessage_webhook after the await: the answer to the sender
WebhookRespond ==
    /\ hook = NoHook
    /\ pc \in {"done", "raised"}
    /\ \E fault \in BOOLEAN :
          hook' = imessage_webhook_result(fault \/ pc = "raised",
                                          state.conversation_id, response)
    /\ UNCHANGED <<pc, state, pending, nextNodes, stepSize, ran, response, history,
                   graphRaised, turn, parked, validator, priority, support_agent, startup>>

\* The module as loaded: the global is None until lifespan binds it, unless
\* the host has installed an agent of its own.
AppInit ==
    /\ support_agent \in {"None", "agent"}
    /\ startup = NotStarted
    /\ hook = NoHook
    /\ priority = NoPriority
    /\ phone = <<>>
    /\ validation = NoValidation
    /\ turn = 1
    /\ parked = IdleContext
    /\ pc = "idle"
    /\ state = AgentState("", NoMessage)
    /\ pending = {}
    /\ nextNodes = {}
    /\ stepSize = 0
    /\ ran = <<>>
    /\ response = NoResponse
    /\ genResult = NoGen
    /\ analysis = NoAnalysis
    /\ escResult = NoEsc
    /\ route = "none"
    /\ graphRaised = FALSE

AppNext ==
    \/ Lifespan
    \/ WebhookUnavailable
    \/ WebhookReceive
    \/ AnalyzeMessage
    \/ GenerateResponse
    \/ AnalyzeConversation
    \/ HandleEscalation
    \/ FinalizeResponse
    \/ ProcessMessageReturn
    \/ ProcessMessageExcept
    \/ WebhookRespond

AppSpec == AppInit /\ [][AppNext]_vars

\* C31 (as claimed): constructing a SupportAgent completes without fault:
\* the startup never fails, and once it is over every attribute
\* _create_graph reads and every attribute __init__ assigns is there and the
\* global holds the agent that will serve process_message.
C31_ConstructionCompletes ==
    /\ startup.kind # "failed"
    /\ startup.kind = "complete" =>
          /\ support_agent = "agent"
          /\ CreateGraphReads \subseteq startup.assigned
          /\ Range(InitAssignments) \subseteq startup.assigned

\* --------------------------------------------------------------- the webhook
\* C37: imessage_webhook never raises for a processing failure.  It invokes
\* process_message only when the agent is initialized and answers 503
\* otherwise; whenever process_message returned and nothing else in the
\* handler raised, it answers success = true with the agent's content, for
\* degraded turns that recommend escalation too; and if processing raised
\* it answers success = false with error_code PROCESSING_ERROR.
C37_WebhookNeverRaises ==
    /\ hook.kind \in {"idle", "http_error", "response"}
    /\ pc # "idle" => support_agent = "agent"
    /\ support_agent = "None" => hook.kind \in {"idle", "http_error"}
    /\ hook.kind = "http_error" =>
          /\ hook.status_code = 503
          /\ support_agent = "None"
          /\ pc = "idle"
    /\ hook.kind = "response" =>
          IF hook.raised
          THEN /\ ~hook.value.success
               /\ hook.value.error_code = "PROCESSING_ERROR"
               /\ hook.value.conversation_id = state.conversation_id
          ELSE /\ Returned
               /\ hook.value.success
               /\ hook.value.response_content = response.value.content
               /\ hook.value.processing_time = response.value.response_time
               /\ hook.value.conversation_id = response.value.conversation_id

\* C37 witness: a turn whose generator failed came back recommending
\* escalation, and the webhook answered success with the apology text.
C37_Witness ==
    /\ hook.kind = "response" /\ ~hook.raised
    /\ GraphCompleted /\ GeneratorFailed
    /\ response.value.should_escalate
    /\ hook.value.success
    /\ StartsWith(hook.value.response_content, APOLOGY)

====
